---- MODULE Spec2Model ----
(***************************************************************************)
(* Incident severity classification engine of Bully_Block_Project          *)
(* (ai_algorithms/feature_extraction.py with the side tables of            *)
(* ai_algorithms/text_cleaning.py).                                        *)
(*                                                                         *)
(* Scores are Python floats in the source.  Here every score is an integer *)
(* number of hundredths (1.5 is 150, 0.3 is 30), so sums and comparisons   *)
(* are exact decimal arithmetic.  Python list index i (from 0) is sequence *)
(* index i + 1.                                                            *)
(***************************************************************************)
EXTENDS Integers, Sequences, FiniteSets, TLC

VARIABLES
    dataset,            \* initial_datasets.json: the raw records
    processed_texts,    \* text_cleaning.main: processed_data.json
    content_types,      \* text_cleaning.content_types
    content_ids,        \* text_cleaning.content_ids
    author_ids,         \* text_cleaning.author_ids
    feature_data,       \* feature_dataset.json: entries with validation and severity_level
    incident_reports,   \* what generate_incident_reports returned
    low_severity,       \* feature_extraction.low_severity
    high_severity,      \* feature_extraction.high_severity
    pc,                 \* position of the running script
    sia,                \* the sentiment scorer of the run: word -> scores
    record,             \* the feature entry handed to validate_features
    validation,         \* the validation handed to determine_severity
    returns,            \* what each determine_severity(validation) call returned, in order
    calls,              \* number of determine_severity calls made so far
    overall_sentiment,  \* validate_features: the scorer's result for the joined text
    labels,             \* training loaders: loader -> labels read from feature_dataset.json
    AUTH_TOKEN,         \* the upload scripts' AUTH_TOKEN
    USER_ID,            \* the upload scripts' USER_ID
    server_incidents,   \* the backend's incidents collection: contentId of each incident
    server_content,     \* the backend's content collection: text of each item
    upload,             \* the last upload call: its function and file, and the token and
                        \* the backend's collection it found
    requests            \* the HTTP requests the last upload call sent, in order

vars == << dataset, processed_texts, content_types, content_ids, author_ids,
           feature_data, incident_reports, low_severity, high_severity, pc,
           sia, record, validation, returns, calls, overall_sentiment, labels,
           AUTH_TOKEN, USER_ID, server_incidents, server_content, upload, requests >>

\* The state of the upload scripts and of the backend they talk to.
client_vars == << AUTH_TOKEN, USER_ID, server_incidents, server_content, upload, requests >>

\* The state of the feature pipeline and the training loaders.
pipeline_vars == << dataset, processed_texts, content_types, content_ids, author_ids,
                   feature_data, incident_reports, low_severity, high_severity,
                   sia, record, validation, returns, overall_sentiment, labels >>

(***************************************************************************)
(* Bounds of the model.                                                    *)
(***************************************************************************)
MaxRecords == 2     \* records of a dataset
MaxTokens == 2      \* tokens of an enumerated record
MaxEntities == 2    \* entities of an enumerated record
MaxAdj == 2         \* adjective counts of an enumerated validation
MaxFlagged == 2     \* flagged entities of an enumerated validation
MaxCalls == 3       \* determine_severity calls on one validation

None == "none"      \* no value yet (Python None)

(***************************************************************************)
(* The word tables of validate_features, in source order, duplicates kept. *)
(***************************************************************************)
severity_lexicon_items ==
  <<
    <<"stupid", -30>>, <<"dumb", -30>>, <<"annoying", -30>>, <<"idiot", -30>>, <<"loser", -30>>,
    <<"ugly", -80>>, <<"hate", -60>>, <<"worthless", -80>>, <<"lame", -30>>,
    <<"embarrassing", -30>>, <<"failure", -30>>, <<"talentless", -30>>, <<"weak", -30>>,
    <<"hideous", -30>>, <<"gross", -30>>, <<"fat", -30>>, <<"clueless", -30>>,
    <<"brainless", -30>>, <<"pathetic", -30>>, <<"useless", -30>>, <<"lonely", -30>>,
    <<"unpopular", -30>>, <<"unwanted", -30>>, <<"disappear", -30>>, <<"disgusting", -30>>,
    <<"fake", -30>>, <<"terrible", -30>>, <<"cheat", -30>>, <<"fuck", -100>>, <<"gay", -100>>,
    <<"ass", -100>>, <<"shit", -100>>, <<"whore", -150>>, <<"slut", -150>>, <<"bitch", -150>>,
    <<"pussy", -30>>, <<"die", -150>>, <<"kill", -150>>, <<"trash", -30>>, <<"garbage", -30>>,
    <<"cringe", -30>>, <<"dumbass", -30>>, <<"scum", -30>>, <<"fail", -30>>, <<"awful", -30>>,
    <<"toxic", -30>>, <<"clown", -30>>, <<"stinks", -30>>, <<"waste", -30>>, <<"losers", -30>>,
    <<"bozo", -30>>, <<"coward", -30>>, <<"weirdo", -30>>, <<"dipshit", -30>>, <<"fatass", -30>>,
    <<"nobody", -30>>, <<"moron", -30>>, <<"idiotic", -30>>, <<"spineless", -30>>,
    <<"incompetent", -30>>, <<"ridiculous", -30>>, <<"foolish", -30>>, <<"dunce", -30>>,
    <<"imbecile", -30>>, <<"dimwit", -30>>, <<"simpleton", -30>>, <<"asshole", -30>>,
    <<"bitchass", -30>>, <<"dick", -30>>, <<"fucking", -30>>, <<"motherfucker", -30>>,
    <<"nasty", -30>>, <<"pig", -30>>, <<"uninstall", -30>>, <<"creepy", -30>>, <<"scumbag", -30>>,
    <<"cheater", -30>>, <<"unloved", -30>>, <<"unwanted", -30>>, <<"broke", -30>>,
    <<"smelly", -30>>, <<"creature", -30>>, <<"joke", -30>>, <<"lowlife", -30>>, <<"rat", -30>>,
    <<"kill yourself", -30>>, <<"loser", -30>>, <<"nobody", -30>>, <<"ugly", -30>>,
    <<"worthless", -30>>, <<"disgusting", -30>>, <<"freak", -30>>, <<"sick", -30>>,
    <<"pathetic", -30>>, <<"disgrace", -30>>, <<"wretched", -30>>, <<"sickening", -30>>,
    <<"repulsive", -30>>, <<"detestable", -30>>, <<"abominable", -30>>, <<"vile", -30>>,
    <<"no one likes you", -30>>, <<"nobody cares", -30>>, <<"go die", -30>>, <<"shut up", -30>>,
    <<"get lost", -30>>, <<"go away", -30>>, <<"waste of space", -30>>, <<"walking L", -30>>,
    <<"drop out", -30>>, <<"go cry", -30>>, <<"stop talking", -30>>, <<"just quit", -30>>,
    <<"your mom", -30>>, <<"poor", -30>>, <<"failure at life", -30>>, <<"so annoying", -30>>,
    <<"hate you", -30>>, <<"why are you here", -30>>, <<"disease", -30>>,
    <<"social suicide", -30>>, <<"cringe af", -30>>, <<"walking disaster", -30>>,
    <<"born on a highway", -30>>, <<"should be illegal", -30>>, <<"mental case", -30>>,
    <<"go choke", -30>>, <<"too dumb to live", -30>>, <<"choke on", -30>>,
    <<"dumbest person", -30>>, <<"disappointment", -30>>, <<"busted", -30>>, <<"rotten", -30>>,
    <<"clapped", -30>>, <<"bald", -30>>, <<"gremlin", -30>>, <<"lard", -30>>, <<"toothpick", -30>>,
    <<"snitch", -30>>, <<"wannabe", -30>>, <<"poser", -30>>, <<"zero purpose", -30>>,
    <<"waste of air", -30>>, <<"reject", -30>>, <<"bot", -30>>, <<"get wrecked", -30>>,
    <<"you suck", -30>>, <<"shithead", -30>>, <<"dickhead", -30>>, <<"jackass", -30>>,
    <<"bastard", -30>>, <<"motherfucker", -30>>, <<"cocksucker", -30>>, <<"cock", -30>>,
    <<"douche", -30>>, <<"douchebag", -30>>, <<"prick", -30>>, <<"twat", -30>>,
    <<"ballsack", -30>>, <<"nutsack", -30>>, <<"tit", -30>>, <<"tits", -30>>, <<"nipple", -30>>,
    <<"hella", -30>>, <<"bullshit", -30>>, <<"horse shit", -30>>, <<"piss", -30>>,
    <<"pissed", -30>>, <<"pissed off", -30>>, <<"son of a bitch", -30>>, <<"bitching", -30>>,
    <<"screw you", -30>>, <<"suck my", -30>>, <<"sucking", -30>>, <<"lick me", -30>>,
    <<"dickwad", -30>>, <<"dickface", -30>>, <<"asswipe", -30>>, <<"shitshow", -30>>,
    <<"fuckwit", -30>>, <<"twatwaffle", -30>>, <<"cunt", -150>>, <<"pussyass", -30>>,
    <<"assclown", -30>>, <<"shitbag", -30>>, <<"fuckface", -30>>, <<"retard", -80>>
  >>

negative_adjective_list ==
  <<
    "stupid", "dumb", "annoying", "idiot", "loser", "ugly", "hate", "worthless", "lame",
    "embarrassing", "failure", "talentless", "weak", "hideous", "gross", "fat", "clueless",
    "brainless", "pathetic", "useless", "lonely", "unpopular", "unwanted", "disappear",
    "disgusting", "fake", "terrible", "cheat", "fuck", "gay", "ass", "shit", "whore", "slut",
    "bitch", "pussy", "die", "kill", "trash", "garbage", "cringe", "dumbass", "scum", "fail",
    "awful", "toxic", "clown", "stinks", "waste", "losers", "bozo", "coward", "weirdo", "dipshit",
    "fatass", "nobody", "moron", "idiotic", "spineless", "incompetent", "ridiculous", "foolish",
    "dunce", "imbecile", "dimwit", "simpleton", "asshole", "bitchass", "dick", "fucking",
    "motherfucker", "nasty", "pig", "uninstall", "creepy", "scumbag", "cheater", "unloved",
    "unwanted", "broke", "smelly", "creature", "joke", "lowlife", "rat", "kill yourself", "loser",
    "nobody", "ugly", "worthless", "disgusting", "freak", "sick", "pathetic", "disgrace",
    "wretched", "sickening", "repulsive", "detestable", "abominable", "vile", "no one likes you",
    "nobody cares", "go die", "shut up", "get lost", "go away", "waste of space", "walking L",
    "drop out", "go cry", "stop talking", "just quit", "your mom", "poor", "failure at life",
    "so annoying", "hate you", "why are you here", "disease", "social suicide", "cringe af",
    "walking disaster", "born on a highway", "should be illegal", "mental case", "go choke",
    "too dumb to live", "choke on", "dumbest person", "disappointment", "busted", "rotten",
    "clapped", "bald", "gremlin", "lard", "toothpick", "snitch", "wannabe", "poser",
    "zero purpose", "waste of air", "reject", "bot", "get wrecked", "you suck", "shithead",
    "dickhead", "jackass", "bastard", "motherfucker", "cocksucker", "cock", "douche", "douchebag",
    "prick", "twat", "ballsack", "nutsack", "tit", "tits", "nipple", "hella", "bullshit",
    "horse shit", "piss", "pissed", "pissed off", "son of a bitch", "bitching", "screw you",
    "suck my", "sucking", "lick me", "dickwad", "dickface", "asswipe", "shitshow", "fuckwit",
    "twatwaffle", "cunt", "pussyass", "assclown", "shitbag", "fuckface", "retard"
  >>

positive_adjective_list ==
  <<
    "amazing", "awesome", "brilliant", "excellent", "fantastic", "great", "incredible",
    "outstanding", "perfect", "phenomenal", "remarkable", "spectacular", "superb", "terrific",
    "wonderful", "beautiful", "brave", "bright", "calm", "cheerful", "clever", "confident",
    "creative", "determined", "energetic", "friendly", "generous", "gentle", "happy", "helpful",
    "honest", "intelligent", "kind", "loving", "loyal", "patient", "peaceful", "polite",
    "powerful", "proud", "reliable", "respectful", "responsible", "sincere", "smart", "strong",
    "successful", "talented", "thoughtful", "trustworthy", "wise", "witty", "worthy", "admirable",
    "adorable", "agreeable", "charming", "courageous", "dedicated", "diligent", "elegant",
    "enthusiastic", "excited", "faithful", "fearless", "graceful", "grateful", "heroic", "hopeful",
    "humble", "inspiring", "joyful", "magnificent", "marvelous", "noble", "optimistic",
    "passionate", "radiant", "splendid", "stellar", "supportive", "tender", "thoughtful",
    "triumphant", "valiant", "valuable", "vibrant", "victorious", "virtuous", "warm", "welcome",
    "worthy", "zealous"
  >>

(***************************************************************************)
(* Helpers.                                                                *)
(***************************************************************************)
abs(x) == IF x < 0 THEN -x ELSE x

max(a, b) == IF a >= b THEN a ELSE b

min(a, b) == IF a <= b THEN a ELSE b

Range(s) == { s[k] : k \in DOMAIN s }

RECURSIVE SeqsUpTo(_, _)
\* All sequences over S of length at most n.
SeqsUpTo(S, n) ==
    IF n = 0 THEN { << >> }
    ELSE LET shorter == SeqsUpTo(S, n - 1)
         IN  shorter \cup { Append(q, x) : q \in shorter, x \in S }

(***************************************************************************)
(* str.lower() on the words the model enumerates.                          *)
(***************************************************************************)
lower(word) ==
    CASE word = "UGLY" -> "ugly"
      [] word = "Loser" -> "loser"
      [] word = "High" -> "high"
      [] word = "Resolved" -> "resolved"
      [] OTHER -> word

\* str.strip() on the field values the model enumerates.
strip(value) ==
    CASE value = " " -> ""
      [] value = " High " -> "High"
      [] value = " nice " -> "nice"
      [] OTHER -> value

(***************************************************************************)
(* The dict literal severity_lexicon: a key given more than once keeps the *)
(* value of its last occurrence.                                           *)
(***************************************************************************)
\* The table read first-write-wins: a repeated key keeps its first value.
severity_lexicon_first_write ==
    LET items == severity_lexicon_items
        keys == { items[k][1] : k \in DOMAIN items }
        first(key) == CHOOSE k \in DOMAIN items :
                        /\ items[k][1] = key
                        /\ \A j \in DOMAIN items : items[j][1] = key => j >= k
    IN  [ key \in keys |-> items[first(key)][2] ]

severity_lexicon ==
    LET items == severity_lexicon_items
        keys == { items[k][1] : k \in DOMAIN items }
        last(key) == CHOOSE k \in DOMAIN items :
                        /\ items[k][1] = key
                        /\ \A j \in DOMAIN items : items[j][1] = key => j <= k
    IN  [ key \in keys |-> items[last(key)][2] ]

RECURSIVE custom_negative_score_signed(_)
\* The loop without abs(): the weights are added as the table gives them.
custom_negative_score_signed(tokens) ==
    IF tokens = << >> THEN 0
    ELSE LET token_lower == lower(Head(tokens)[1])
             rest == custom_negative_score_signed(Tail(tokens))
         IN  IF token_lower \in DOMAIN severity_lexicon
             THEN severity_lexicon[token_lower] + rest
             ELSE rest

RECURSIVE custom_negative_score_bigrams(_)
\* The loop with the commented-out bigram lookup (lines 279-281) switched
\* on: two adjacent tokens joined by a space are looked up as well.
custom_negative_score_bigrams(tokens) ==
    IF tokens = << >> THEN 0
    ELSE LET token_lower == lower(Head(tokens)[1])
             rest == custom_negative_score_bigrams(Tail(tokens))
             unigram == IF token_lower \in DOMAIN severity_lexicon
                        THEN abs(severity_lexicon[token_lower]) ELSE 0
             bigram == IF Len(tokens) >= 2
                       THEN token_lower \o " " \o lower(tokens[2][1]) ELSE ""
         IN  unigram + rest
                + (IF bigram \in DOMAIN severity_lexicon
                   THEN abs(severity_lexicon[bigram]) ELSE 0)

RECURSIVE custom_negative_score(_)
\* The loop over tokens that accumulates abs(severity_lexicon[token_lower]).
custom_negative_score(tokens) ==
    IF tokens = << >> THEN 0
    ELSE LET token_lower == lower(Head(tokens)[1])
             rest == custom_negative_score(Tail(tokens))
         IN  IF token_lower \in DOMAIN severity_lexicon
             THEN abs(severity_lexicon[token_lower]) + rest
             ELSE rest

RECURSIVE count_adjectives(_, _)
\* sum(1 for token, pos in tokens if pos == "ADJ" and token.lower() in words)
count_adjectives(tokens, words) ==
    IF tokens = << >> THEN 0
    ELSE (IF Head(tokens)[2] = "ADJ" /\ lower(Head(tokens)[1]) \in Range(words)
          THEN 1 ELSE 0) + count_adjectives(Tail(tokens), words)

RECURSIVE negative_adjectives_any_tag(_)
\* The count without the pos == "ADJ" test.
negative_adjectives_any_tag(tokens) ==
    IF tokens = << >> THEN 0
    ELSE (IF lower(Head(tokens)[1]) \in Range(negative_adjective_list) THEN 1 ELSE 0)
            + negative_adjectives_any_tag(Tail(tokens))

negative_adjectives(tokens) == count_adjectives(tokens, negative_adjective_list)

positive_adjectives(tokens) == count_adjectives(tokens, positive_adjective_list)

(***************************************************************************)
(* sia.polarity_scores on one token: the scorer is a library, a fixed      *)
(* function of the text for the whole run (variable sia).  It lowercases   *)
(* the word before its own lexicon lookup.                                 *)
(***************************************************************************)
token_polarity_scores(token) == sia[lower(token[1])]

RECURSIVE sum_scores(_, _)
\* sum(score[key] for score in token_sentiment_scores)
sum_scores(tokens, key) ==
    IF tokens = << >> THEN 0
    ELSE token_polarity_scores(Head(tokens))[key] + sum_scores(Tail(tokens), key)

NoScores == [pos |-> 0, neg |-> 0, neu |-> 0]

(***************************************************************************)
(* sia.polarity_scores(text) on the joined tokens: the text of no tokens   *)
(* is empty, for which the scorer returns all zeros; any other text may    *)
(* score anything.                                                         *)
(***************************************************************************)
OverallScores ==
    { NoScores,
      [pos |-> 0, neg |-> 0, neu |-> 100],
      [pos |-> 0, neg |-> 60, neu |-> 40],
      [pos |-> 70, neg |-> 0, neu |-> 30] }

overall_polarity_scores(tokens) ==
    IF tokens = << >> THEN { NoScores } ELSE OverallScores

(***************************************************************************)
(* analyze_entity_context                                                  *)
(***************************************************************************)
negative_words == { "stupid", "dumb", "annoying", "loser" }

RECURSIVE select_flagged_distinct(_, _)
\* The comprehension collected into a set: a repeated text is kept once.
select_flagged_distinct(entities, any_negative) ==
    IF entities = << >> THEN << >>
    ELSE LET entity == Head(entities)
             rest == select_flagged_distinct(Tail(entities), any_negative)
         IN  IF entity[2] = "PERSON" /\ any_negative /\ entity[1] \notin Range(rest)
             THEN << entity[1] >> \o rest
             ELSE rest

RECURSIVE select_flagged(_, _)
select_flagged(entities, any_negative) ==
    IF entities = << >> THEN << >>
    ELSE LET entity == Head(entities)
             rest == select_flagged(Tail(entities), any_negative)
         IN  IF entity[2] = "PERSON" /\ any_negative
             THEN << entity[1] >> \o rest
             ELSE rest

\* The same comprehension with word[0] compared as written, without .lower().
analyze_entity_context_case_sensitive(entities, tokens) ==
    select_flagged(entities,
                   \E k \in DOMAIN tokens : tokens[k][1] \in negative_words)

analyze_entity_context(entities, tokens) ==
    select_flagged(entities,
                   \E k \in DOMAIN tokens : lower(tokens[k][1]) \in negative_words)

(***************************************************************************)
(* validate_features on one feature entry; overall_sentiment is what the   *)
(* scorer returned for the joined text.                                    *)
(***************************************************************************)
sentiment_summary_empty_default(tokens, overall) ==
    IF tokens = << >>
    THEN [positive |-> 0, negative |-> 0, neutral |-> 100]
    ELSE [positive |-> max(overall.pos, sum_scores(tokens, "pos")),
          negative |-> max(overall.neg, sum_scores(tokens, "neg")),
          neutral  |-> min(overall.neu, sum_scores(tokens, "neu"))]

\* The summary with the neutral score aggregated like the other two.
sentiment_summary_neutral_max(tokens, overall) ==
    [positive |-> max(overall.pos, sum_scores(tokens, "pos")),
     negative |-> max(overall.neg, sum_scores(tokens, "neg")),
     neutral  |-> max(overall.neu, sum_scores(tokens, "neu"))]

\* total_negative taken from the summary's negative score.
validate_features_summary_negative(tokens, entities, overall) ==
    [token_count           |-> Len(tokens),
     entity_count          |-> Len(entities),
     negative_adjectives   |-> negative_adjectives(tokens),
     positive_adjectives   |-> positive_adjectives(tokens),
     custom_negative_score |-> custom_negative_score(tokens),
     total_negative        |-> max(overall.neg, sum_scores(tokens, "neg"))
                                  + custom_negative_score(tokens),
     sentiment_summary     |-> [positive |-> max(overall.pos, sum_scores(tokens, "pos")),
                                negative |-> max(overall.neg, sum_scores(tokens, "neg")),
                                neutral  |-> min(overall.neu, sum_scores(tokens, "neu"))],
     flagged_entities      |-> analyze_entity_context(entities, tokens)]

sentiment_summary(tokens, overall) ==
    [positive |-> max(overall.pos, sum_scores(tokens, "pos")),
     negative |-> max(overall.neg, sum_scores(tokens, "neg")),
     neutral  |-> min(overall.neu, sum_scores(tokens, "neu"))]

validate_features(tokens, entities, overall) ==
    [token_count           |-> Len(tokens),
     entity_count          |-> Len(entities),
     negative_adjectives   |-> negative_adjectives(tokens),
     positive_adjectives   |-> positive_adjectives(tokens),
     custom_negative_score |-> custom_negative_score(tokens),
     total_negative        |-> sum_scores(tokens, "neg") + custom_negative_score(tokens),
     sentiment_summary     |-> sentiment_summary(tokens, overall),
     flagged_entities      |-> analyze_entity_context(entities, tokens)]

(***************************************************************************)
(* determine_severity.  sentiment_balance is positive_score minus          *)
(* total_negative; flagged is len(validation["flagged_entities"]).         *)
(***************************************************************************)
sentiment_balance(v) == v.sentiment_summary.positive - v.total_negative

\* The fifth HIGH condition with > in place of >=.
high_conditions_strict(v) ==
    \/ v.total_negative > 150 /\ v.negative_adjectives >= 1
    \/ v.total_negative >= 250 /\ v.negative_adjectives = 0
    \/ Len(v.flagged_entities) >= 2
    \/ sentiment_balance(v) <= -200
    \/ v.negative_adjectives >= 1 /\ v.total_negative > 150

\* The second HIGH condition with > in place of >=.
high_conditions_second_strict(v) ==
    \/ v.total_negative > 150 /\ v.negative_adjectives >= 1
    \/ v.total_negative > 250 /\ v.negative_adjectives = 0
    \/ Len(v.flagged_entities) >= 2
    \/ sentiment_balance(v) <= -200
    \/ v.negative_adjectives >= 1 /\ v.total_negative >= 150

\* The flagged-entity HIGH condition with > in place of >=.
high_conditions_flagged_strict(v) ==
    \/ v.total_negative > 150 /\ v.negative_adjectives >= 1
    \/ v.total_negative >= 250 /\ v.negative_adjectives = 0
    \/ Len(v.flagged_entities) > 2
    \/ sentiment_balance(v) <= -200
    \/ v.negative_adjectives >= 1 /\ v.total_negative >= 150

high_conditions(v) ==
    \/ v.total_negative > 150 /\ v.negative_adjectives >= 1
    \/ v.total_negative >= 250 /\ v.negative_adjectives = 0
    \/ Len(v.flagged_entities) >= 2
    \/ sentiment_balance(v) <= -200
    \/ v.negative_adjectives >= 1 /\ v.total_negative >= 150

\* The sentiment-balance LOW condition closed at 0.
low_conditions_balance_closed(v) ==
    \/ 30 <= v.total_negative /\ v.total_negative < 150 /\ v.negative_adjectives >= 1
    \/ v.total_negative >= 150 /\ v.negative_adjectives = 0
    \/ Len(v.flagged_entities) = 1
    \/ -50 <= sentiment_balance(v) /\ sentiment_balance(v) <= 0
    \/ v.sentiment_summary.neutral > 70 /\ v.negative_adjectives >= 0

\* The high-neutral LOW condition as its comment words it ("with negative
\* adjectives"): at least one negative adjective required.
low_conditions_neutral_with_adjectives(v) ==
    \/ 30 <= v.total_negative /\ v.total_negative < 150 /\ v.negative_adjectives >= 1
    \/ v.total_negative >= 150 /\ v.negative_adjectives = 0
    \/ Len(v.flagged_entities) = 1
    \/ -50 <= sentiment_balance(v) /\ sentiment_balance(v) < 0
    \/ v.sentiment_summary.neutral > 70 /\ v.negative_adjectives >= 1

\* The high-neutral LOW condition limited to records without a positive
\* adjective.
low_conditions_neutral_no_positive(v) ==
    \/ 30 <= v.total_negative /\ v.total_negative < 150 /\ v.negative_adjectives >= 1
    \/ v.total_negative >= 150 /\ v.negative_adjectives = 0
    \/ Len(v.flagged_entities) = 1
    \/ -50 <= sentiment_balance(v) /\ sentiment_balance(v) < 0
    \/ v.sentiment_summary.neutral > 70 /\ v.positive_adjectives = 0

low_conditions(v) ==
    \/ 30 <= v.total_negative /\ v.total_negative < 150 /\ v.negative_adjectives >= 1
    \/ v.total_negative >= 150 /\ v.negative_adjectives = 0
    \/ Len(v.flagged_entities) = 1
    \/ -50 <= sentiment_balance(v) /\ sentiment_balance(v) < 0
    \/ v.sentiment_summary.neutral > 70 /\ v.negative_adjectives >= 0

zero_conditions(v) ==
    \/ sentiment_balance(v) > 0
    \/ v.negative_adjectives = 0 /\ Len(v.flagged_entities) = 0
    \/ v.sentiment_summary.positive >= 80
    \/ v.positive_adjectives >= 1
    \/ v.sentiment_summary.neutral > 70 /\ v.positive_adjectives >= 1

\* A call that counts a "zero" result in low_severity as well.
Returned_zero_counted_low(tier) ==
    [ret           |-> tier,
     low_severity  |-> IF tier \in { "low", "zero" } THEN low_severity + 1 ELSE low_severity,
     high_severity |-> IF tier = "high" THEN high_severity + 1 ELSE high_severity]

\* What a call returns and leaves in the two global counters.
Returned(tier) ==
    [ret           |-> tier,
     low_severity  |-> IF tier = "low" THEN low_severity + 1 ELSE low_severity,
     high_severity |-> IF tier = "high" THEN high_severity + 1 ELSE high_severity]

\* The LOW branch tested before the HIGH branch.
determine_severity_low_first(v) ==
    IF low_conditions(v) THEN Returned("low")
    ELSE IF high_conditions(v) THEN Returned("high")
    ELSE IF zero_conditions(v) THEN Returned("zero")
    ELSE Returned("zero")

\* No final return: the function falls off its end and returns None.
determine_severity_no_default(v) ==
    IF high_conditions(v) THEN Returned("high")
    ELSE IF low_conditions(v) THEN Returned("low")
    ELSE IF zero_conditions(v) THEN Returned("zero")
    ELSE Returned(None)

\* The tally read back: once a high incident was counted, LOW becomes HIGH.
determine_severity_reads_tally(v) ==
    IF high_conditions(v) THEN Returned("high")
    ELSE IF low_conditions(v)
         THEN (IF high_severity >= 1 THEN Returned("high") ELSE Returned("low"))
    ELSE IF zero_conditions(v) THEN Returned("zero")
    ELSE Returned("zero")

\* The final return as its comment words it ("Default to low severity").
determine_severity_default_low(v) ==
    IF high_conditions(v) THEN Returned("high")
    ELSE IF low_conditions(v) THEN Returned("low")
    ELSE IF zero_conditions(v) THEN Returned("zero")
    ELSE Returned("low")

determine_severity(v) ==
    IF high_conditions(v) THEN Returned("high")
    ELSE IF low_conditions(v) THEN Returned("low")
    ELSE IF zero_conditions(v) THEN Returned("zero")
    ELSE Returned("zero")

Tiers == { "zero", "low", "high" }

(***************************************************************************)
(* Direct calls of determine_severity: any validation record within the    *)
(* bounds, called repeatedly, with calls on other records in between that  *)
(* move the two tally counters.                                            *)
(***************************************************************************)
TotalNegativeValues == { 0, 29, 30, 50, 51, 149, 150, 151, 200, 249, 250, 300 }

PositiveValues == { 0, 50, 80, 100 }

NeutralValues == { 0, 70, 71 }

ValidationRecords ==
    [token_count           : { 0 },
     entity_count          : { 0 },
     negative_adjectives   : 0 .. MaxAdj,
     positive_adjectives   : { 0, 1 },
     custom_negative_score : { 0 },
     total_negative        : TotalNegativeValues,
     sentiment_summary     : [positive : PositiveValues, negative : { 0 },
                              neutral : NeutralValues],
     flagged_entities      : SeqsUpTo({ "Alex" }, MaxFlagged)]

\* The record of the calls in between: one of tier high, which moves the
\* counter high_severity (low_severity moves with the calls on a low record).
InterveningValidations ==
    { v \in ValidationRecords :
        /\ v.negative_adjectives = 0 /\ v.positive_adjectives = 0
        /\ v.sentiment_summary.positive = 0 /\ v.sentiment_summary.neutral = 0
        /\ v.flagged_entities = << >>
        /\ v.total_negative = 250 }

NeutralScorer == [word \in { "you" } |-> [pos |-> 0, neg |-> 0, neu |-> 100]]

\* No upload script has run and the backend is not looked at.
NoClient ==
    /\ AUTH_TOKEN = None
    /\ USER_ID = None
    /\ server_incidents = << >>
    /\ server_content = << >>
    /\ upload = << >>
    /\ requests = << >>

\* The pipeline's state at import time, before any script ran.
ModuleState ==
    /\ dataset = << >>
    /\ processed_texts = << >>
    /\ content_types = << >>
    /\ content_ids = << >>
    /\ author_ids = << >>
    /\ feature_data = << >>
    /\ incident_reports = << >>
    /\ low_severity = 0
    /\ high_severity = 0
    /\ overall_sentiment = None
    /\ labels = << >>
    /\ NoClient

SeverityInit ==
    /\ ModuleState
    /\ pc = "severity"
    /\ sia = NeutralScorer
    /\ record = None
    /\ validation \in ValidationRecords
    /\ returns = << >>
    /\ calls = 0

\* severity = determine_severity(validation)
DetermineSeverity ==
    /\ pc = "severity"
    /\ calls < MaxCalls
    /\ LET r == determine_severity(validation)
       IN  /\ returns' = Append(returns, r.ret)
           /\ low_severity' = r.low_severity
           /\ high_severity' = r.high_severity
    /\ calls' = calls + 1
    /\ UNCHANGED << dataset, processed_texts, content_types, content_ids, author_ids,
                    feature_data, incident_reports, pc, sia, record, validation,
                    overall_sentiment, labels >>
    /\ UNCHANGED client_vars

\* determine_severity(v) on another record, its result dropped.
InterveningCall ==
    /\ pc = "severity"
    /\ calls < MaxCalls
    /\ \E v \in InterveningValidations :
         LET r == determine_severity(v)
         IN  /\ low_severity' = r.low_severity
             /\ high_severity' = r.high_severity
    /\ calls' = calls + 1
    /\ UNCHANGED << dataset, processed_texts, content_types, content_ids, author_ids,
                    feature_data, incident_reports, pc, sia, record, validation, returns,
                    overall_sentiment, labels >>
    /\ UNCHANGED client_vars

SeverityNext == DetermineSeverity \/ InterveningCall

SpecSeverity == SeverityInit /\ [][SeverityNext]_vars

(***************************************************************************)
(* Properties of determine_severity, checked under SpecSeverity.           *)
(***************************************************************************)
\* The five HIGH predicates as the specification words them.
SpecHighPredicate(v) ==
    LET flaggedCount == Len(v.flagged_entities)
        balance == v.sentiment_summary.positive - v.total_negative
    IN  \/ v.total_negative > 150 /\ v.negative_adjectives >= 1
        \/ v.total_negative >= 250 /\ v.negative_adjectives = 0
        \/ flaggedCount >= 2
        \/ balance <= -200
        \/ v.negative_adjectives >= 1 /\ v.total_negative >= 150

\* The five LOW predicates as the specification words them.
SpecLowPredicate(v) ==
    LET flaggedCount == Len(v.flagged_entities)
        balance == v.sentiment_summary.positive - v.total_negative
    IN  \/ 30 <= v.total_negative /\ v.total_negative < 150 /\ v.negative_adjectives >= 1
        \/ v.total_negative >= 150 /\ v.negative_adjectives = 0
        \/ flaggedCount = 1
        \/ -50 <= balance /\ balance < 0
        \/ v.sentiment_summary.neutral > 70

\* C1: a validation record that satisfies at least one HIGH predicate is
\* classified "high" by every call, also when LOW or ZERO predicates hold.
C1_PriorityOrdering ==
    \A k \in DOMAIN returns :
        SpecHighPredicate(validation) => returns[k] = "high"

\* C1 witness: a call returned "high" for a record on which a HIGH, a LOW
\* and a ZERO predicate hold together.
C1_Witness ==
    /\ pc = "severity"
    /\ returns /= << >>
    /\ SpecHighPredicate(validation)
    /\ SpecLowPredicate(validation)
    /\ validation.positive_adjectives >= 1
    /\ returns[1] = "high"

\* C2: every call on a validation record returns exactly one of "zero",
\* "low", "high".
C2_Totality ==
    \A k \in DOMAIN returns : returns[k] \in Tiers

\* C2 witness: a call returned through the final fallback, no HIGH, LOW or
\* ZERO condition holding.
C2_Witness ==
    /\ pc = "severity"
    /\ returns /= << >>
    /\ ~ SpecHighPredicate(validation)
    /\ ~ SpecLowPredicate(validation)
    /\ ~ zero_conditions(validation)
    /\ returns[1] = "zero"

\* C3: all calls on the same validation record return the same tier,
\* whatever the tally counters hold and whatever calls happened in between.
C3_Determinism ==
    \A a, b \in DOMAIN returns : returns[a] = returns[b]

\* C3 witness: two calls on the record returned "low", with a call on
\* another record that raised high_severity among the three calls made.
C3_Witness ==
    /\ pc = "severity"
    /\ Len(returns) = 2
    /\ calls = 3
    /\ high_severity = 1
    /\ low_severity = 2
    /\ returns[1] = "low"

\* C4: with negativeAdjectiveCount = 1, totalNegative >= 1.5 (1.5 included)
\* gives "high", and 0.3 <= totalNegative < 1.5 with no HIGH predicate true
\* gives "low".
C4_ThresholdInclusive ==
    \A k \in DOMAIN returns :
        validation.negative_adjectives = 1 =>
            /\ validation.total_negative >= 150 => returns[k] = "high"
            /\ ( /\ 30 <= validation.total_negative
                 /\ validation.total_negative < 150
                 /\ ~ SpecHighPredicate(validation) ) => returns[k] = "low"

\* C4 witness: exactly 1.5 with one negative adjective, no flagged entity and
\* a balance above -2, returned "high".
C4_Witness ==
    /\ pc = "severity"
    /\ validation.negative_adjectives = 1
    /\ validation.total_negative = 150
    /\ validation.flagged_entities = << >>
    /\ validation.sentiment_summary.positive - validation.total_negative > -200
    /\ returns = << "high" >>

\* C7: flaggedCount >= 2 gives "high"; flaggedCount = 1 with no HIGH
\* predicate true gives "low"; so a record with a flagged entity is never
\* "zero".
C7_FlagCountToTier ==
    \A k \in DOMAIN returns :
        /\ Len(validation.flagged_entities) >= 2 => returns[k] = "high"
        /\ ( /\ Len(validation.flagged_entities) = 1
             /\ ~ SpecHighPredicate(validation) ) => returns[k] = "low"
        /\ Len(validation.flagged_entities) >= 1 => returns[k] /= "zero"

\* C7 witness: two flagged entities and every other field zero, returned
\* "high".
C7_Witness ==
    /\ pc = "severity"
    /\ Len(validation.flagged_entities) = 2
    /\ validation.total_negative = 0
    /\ validation.negative_adjectives = 0
    /\ validation.positive_adjectives = 0
    /\ validation.sentiment_summary = [positive |-> 0, negative |-> 0, neutral |-> 0]
    /\ returns = << "high" >>

\* The ZERO-tier predicates of the decision procedure.
SpecZeroPredicate(v) ==
    \/ v.sentiment_summary.positive - v.total_negative > 0
    \/ v.negative_adjectives = 0 /\ Len(v.flagged_entities) = 0
    \/ v.sentiment_summary.positive >= 80
    \/ v.positive_adjectives >= 1

HighWithoutFirst(v) ==
    \/ v.total_negative >= 250 /\ v.negative_adjectives = 0
    \/ Len(v.flagged_entities) >= 2
    \/ v.sentiment_summary.positive - v.total_negative <= -200
    \/ v.negative_adjectives >= 1 /\ v.total_negative >= 150

\* C27: a validation record with total_negative >= 2.5 is "high" whatever
\* its other fields; one with 1.5 <= total_negative < 2.5 and no negative
\* adjective is "low" unless flaggedCount >= 2 or the balance is <= -2; and
\* the HIGH test of determine_severity holds exactly when it holds without
\* its first condition, so every call returns what it would return with
\* that condition removed.
C27_TotalNegativeBands ==
    /\ high_conditions(validation) <=> HighWithoutFirst(validation)
    /\ \A k \in DOMAIN returns :
          /\ validation.total_negative >= 250 => returns[k] = "high"
          /\ ( /\ 150 <= validation.total_negative
               /\ validation.total_negative < 250
               /\ validation.negative_adjectives = 0
               /\ Len(validation.flagged_entities) < 2
               /\ validation.sentiment_summary.positive - validation.total_negative > -200 )
                => returns[k] = "low"
          /\ returns[k] = "high" <=> HighWithoutFirst(validation)

\* C27 witness: total_negative exactly 2.5, no negative adjective, no
\* flagged entity and a balance above -2, returned "high".
C27_Witness ==
    /\ pc = "severity"
    /\ validation.total_negative = 250
    /\ validation.negative_adjectives = 0
    /\ validation.flagged_entities = << >>
    /\ validation.sentiment_summary.positive = 100
    /\ returns = << "high" >>

\* The records that agree with v on total_negative, the positive and
\* neutral scores, negative_adjectives and the number of flagged entities.
Variants(v) ==
    { [v EXCEPT !.token_count = tc, !.entity_count = ec,
                !.positive_adjectives = pa,
                !.sentiment_summary.negative = neg,
                !.flagged_entities = [k \in DOMAIN v.flagged_entities |-> name]] :
        tc \in { 0, 2 }, ec \in { 0, 2 }, pa \in { 0, 1, 2 }, neg \in { 0, 60 },
        name \in { "Alex", "Sam" } }

TokenSet ==
    { << "you", "PRON" >>, << "stupid", "ADJ" >>, << "UGLY", "ADJ" >>,
      << "Loser", "NOUN" >>, << "great", "ADJ" >>, << "kill", "VERB" >>,
      << "yourself", "PRON" >> }

EntitySet ==
    { << "Alex", "PERSON" >>, << "Sam", "PERSON" >>, << "Paris", "GPE" >> }

ScenarioTokens ==
    << << "you", "PRON" >>, << "are", "AUX" >>, << "stupid", "ADJ" >>, << "ugly", "ADJ" >> >>

Words == { "you", "are", "stupid", "ugly", "loser", "great", "kill", "yourself" }

\* A scorer that gives a word of its own lexicon all its weight.
LexicalScorer ==
    [word \in Words |->
        IF word \in { "stupid", "ugly", "loser", "kill" }
        THEN [pos |-> 0, neg |-> 100, neu |-> 0]
        ELSE IF word = "great" THEN [pos |-> 100, neg |-> 0, neu |-> 0]
        ELSE [pos |-> 0, neg |-> 0, neu |-> 100]]

\* A scorer under which the scenario's tokens sum to negative 0.6.
MildScorer ==
    [word \in Words |->
        IF word \in { "stupid", "ugly" }
        THEN [pos |-> 0, neg |-> 30, neu |-> 70]
        ELSE IF word = "great" THEN [pos |-> 30, neg |-> 0, neu |-> 70]
        ELSE [pos |-> 0, neg |-> 0, neu |-> 100]]

Scorers == { LexicalScorer, MildScorer }

FeatureEntries ==
    [tokens   : SeqsUpTo(TokenSet, MaxTokens) \cup { ScenarioTokens },
     entities : SeqsUpTo(EntitySet, MaxEntities)]

ValidateInit ==
    /\ ModuleState
    /\ pc = "extracted"
    /\ sia \in Scorers
    /\ record \in FeatureEntries
    /\ validation = None
    /\ returns = << >>
    /\ calls = 0

\* validated_entry = validate_features([feature_entry])[0]
ValidateFeatures ==
    /\ pc = "extracted"
    /\ \E overall \in overall_polarity_scores(record.tokens) :
         /\ overall_sentiment' = overall
         /\ validation' = validate_features(record.tokens, record.entities, overall)
    /\ pc' = "validated"
    /\ UNCHANGED << dataset, processed_texts, content_types, content_ids, author_ids,
                    feature_data, incident_reports, low_severity, high_severity,
                    sia, record, returns, calls, labels >>
    /\ UNCHANGED client_vars

\* validated_entry["severity_level"] = determine_severity(validated_entry["validation"])
AssignSeverity ==
    /\ pc = "validated"
    /\ LET r == determine_severity(validation)
       IN  /\ returns' = Append(returns, r.ret)
           /\ low_severity' = r.low_severity
           /\ high_severity' = r.high_severity
    /\ calls' = calls + 1
    /\ pc' = "assigned"
    /\ UNCHANGED << dataset, processed_texts, content_types, content_ids, author_ids,
                    feature_data, incident_reports, sia, record, validation,
                    overall_sentiment, labels >>
    /\ UNCHANGED client_vars

ValidateNext == ValidateFeatures \/ AssignSeverity

SpecValidate == ValidateInit /\ [][ValidateNext]_vars

(***************************************************************************)
(* Properties of validate_features, checked under SpecValidate.            *)
(***************************************************************************)
EmptyRecordValidated ==
    /\ pc \in { "validated", "assigned" }
    /\ record.tokens = << >>
    /\ record.entities = << >>

\* C5 as stated: validate_features on a record with no tokens and no entities
\* gives zero counts, total_negative 0, no flagged entities and the sentiment
\* summary positive 0, negative 0, neutral 1.
C5_EmptyRecordNeutralOne ==
    EmptyRecordValidated =>
        /\ validation.token_count = 0
        /\ validation.entity_count = 0
        /\ validation.negative_adjectives = 0
        /\ validation.positive_adjectives = 0
        /\ validation.total_negative = 0
        /\ validation.flagged_entities = << >>
        /\ validation.sentiment_summary = [positive |-> 0, negative |-> 0, neutral |-> 100]

\* C5 amended: validate_features on a record with no tokens and no entities
\* gives zero counts, total_negative 0, no flagged entities and the sentiment
\* summary positive 0, negative 0, neutral 0.
C5_EmptyRecordFeatures ==
    EmptyRecordValidated =>
        /\ validation.token_count = 0
        /\ validation.entity_count = 0
        /\ validation.negative_adjectives = 0
        /\ validation.positive_adjectives = 0
        /\ validation.total_negative = 0
        /\ validation.flagged_entities = << >>
        /\ validation.sentiment_summary = [positive |-> 0, negative |-> 0, neutral |-> 0]

\* C5 witness: validate_features has returned for the empty record.
C5_Witness ==
    /\ pc = "validated"
    /\ record.tokens = << >>
    /\ record.entities = << >>
    /\ validation.token_count = 0
    /\ validation.sentiment_summary.neutral = 0

\* C6: validate_features then determine_severity on a record with no tokens
\* and no entities gives the tier "zero".
C6_EmptyRecordTier ==
    ( /\ pc = "assigned"
      /\ record.tokens = << >>
      /\ record.entities = << >> ) => returns = << "zero" >>

\* C6 witness: the empty record went through both functions and its
\* validation got the tier "zero".
C6_Witness ==
    /\ pc = "assigned"
    /\ record = [tokens |-> << >>, entities |-> << >>]
    /\ validation.total_negative = 0
    /\ returns = << "zero" >>

\* C10 as stated: the scenario (you, are, stupid, ugly; one PERSON entity
\* Alex; token-summed negative 0.6) gives flagged entities {Alex}, two
\* negative adjectives, lexicon score 1.1, total_negative 1.7, tier "high".
C10_EndToEndScenario ==
    ( /\ pc = "assigned"
      /\ record.tokens = ScenarioTokens
      /\ record.entities = << << "Alex", "PERSON" >> >>
      /\ sum_scores(record.tokens, "neg") = 60 ) =>
        /\ validation.flagged_entities = << "Alex" >>
        /\ validation.negative_adjectives = 2
        /\ validation.custom_negative_score = 110
        /\ validation.total_negative = 170
        /\ returns = << "high" >>

(***************************************************************************)
(* The script of feature_extraction.py: text_cleaning.main(), then         *)
(* process_and_save_features, then generate_incident_reports.              *)
(*                                                                         *)
(* A raw record is a dict; a key it does not hold is None here.            *)
(***************************************************************************)
RawRecord(content, text, contentType, post_id, message_id, comment_id, author_id) ==
    [content |-> content, text |-> text, contentType |-> contentType,
     post_id |-> post_id, message_id |-> message_id, comment_id |-> comment_id,
     author_id |-> author_id]

RawRecords ==
    { RawRecord("c1", None, "post", "p1", None, None, "u1"),
      RawRecord("c2", None, "message", None, "m2", None, "u2"),
      RawRecord("c3", None, "comment", "p3", None, None, None),
      RawRecord("c4", None, "video", "p4", None, None, "u1"),
      RawRecord("c5", None, None, None, None, None, None),
      RawRecord(None, "t6", None, None, None, None, "u2"),
      RawRecord(None, None, "post", "p7", None, None, "u1") }

\* record.get('author_id', "Unspecified")
get_or_unspecified(value) == IF value = None THEN "Unspecified" ELSE value

\* The content id main() finds for one record.
record_content_id(r) ==
    IF r.content /= None /\ r.contentType \in { "post", "message", "comment" }
    THEN IF r.contentType = "post" /\ r.post_id /= None THEN r.post_id
         ELSE IF r.contentType = "message" /\ r.message_id /= None THEN r.message_id
         ELSE IF r.contentType = "comment" /\ r.comment_id /= None THEN r.comment_id
         ELSE "Unspecified"
    ELSE "Unspecified"

\* The content type main() appends for a record with a 'content' field.
record_content_type(r) ==
    IF r.contentType \in { "post", "message", "comment" }
    THEN r.contentType
    ELSE "Unspecified"

RECURSIVE main_loop(_, _)
\* The loop of text_cleaning.main() over the records, from the lists so far.
main_loop(records, lists) ==
    IF records = << >> THEN lists
    ELSE LET r == Head(records)
             author_id == get_or_unspecified(r.author_id)
             text == IF r.content /= None THEN r.content ELSE r.text
         IN  main_loop(Tail(records),
                 [processed_texts |->
                      IF text /= None
                      THEN Append(lists.processed_texts,
                                  [original |-> text, author_id |-> author_id])
                      ELSE lists.processed_texts,
                  content_types |->
                      IF r.content /= None
                      THEN Append(lists.content_types, record_content_type(r))
                      ELSE lists.content_types,
                  content_ids |-> Append(lists.content_ids, record_content_id(r)),
                  author_ids |-> Append(lists.author_ids, author_id)])

IndexError == "IndexError"

\* content_types[i]
get_content_type(i) ==
    IF i + 1 \in DOMAIN content_types THEN content_types[i + 1] ELSE IndexError

\* content_ids[i]
get_content_id(i) ==
    IF i + 1 \in DOMAIN content_ids THEN content_ids[i + 1] ELSE IndexError

\* author_ids[i]
get_author_id(i) ==
    IF i + 1 \in DOMAIN author_ids THEN author_ids[i + 1] ELSE IndexError

\* What extract_features and the scorer may give for a text of the dataset.
ExtractedFeatures ==
    { [tokens |-> << >>, entities |-> << >>, overall_sentiment |-> NoScores],
      [tokens |-> << << "you", "PRON" >>, << "stupid", "ADJ" >> >>,
       entities |-> << << "Alex", "PERSON" >> >>,
       overall_sentiment |-> [pos |-> 0, neg |-> 60, neu |-> 40]],
      [tokens |-> ScenarioTokens,
       entities |-> << << "Alex", "PERSON" >>, << "Sam", "PERSON" >> >>,
       overall_sentiment |-> [pos |-> 0, neg |-> 60, neu |-> 40]],
      [tokens |-> << << "great", "ADJ" >> >>,
       entities |-> << << "Paris", "GPE" >> >>,
       overall_sentiment |-> [pos |-> 70, neg |-> 0, neu |-> 30]] }

\* Datasets with at least one text: without any, no feature file is written
\* and the script stops before it generates reports.
Datasets ==
    { d \in SeqsUpTo(RawRecords, MaxRecords) :
        \E k \in DOMAIN d : d[k].content /= None \/ d[k].text /= None }

Init ==
    /\ dataset \in Datasets
    /\ processed_texts = << >>
    /\ content_types = << >>
    /\ content_ids = << >>
    /\ author_ids = << >>
    /\ feature_data = << >>
    /\ incident_reports = << >>
    /\ low_severity = 0
    /\ high_severity = 0
    /\ pc = "start"
    /\ sia \in Scorers
    /\ record = None
    /\ validation = None
    /\ returns = << >>
    /\ calls = 0
    /\ overall_sentiment = None
    /\ labels = << >>
    /\ NoClient

\* text_cleaning.main()
TextCleaningMain ==
    /\ pc = "start"
    /\ LET lists == main_loop(dataset,
                        [processed_texts |-> << >>, content_types |-> content_types,
                         content_ids |-> content_ids, author_ids |-> author_ids])
       IN  /\ processed_texts' = lists.processed_texts
           /\ content_types' = lists.content_types
           /\ content_ids' = lists.content_ids
           /\ author_ids' = lists.author_ids
    /\ pc' = "features"
    /\ UNCHANGED << dataset, feature_data, incident_reports, low_severity, high_severity,
                    sia, record, validation, returns, calls, overall_sentiment, labels >>
    /\ UNCHANGED client_vars

\* One pass of the loop of process_and_save_features; after the last record
\* the dataset is saved and the script reads it back as feature_data.
ProcessRecord ==
    /\ pc = "features"
    /\ Len(feature_data) < Len(processed_texts)
    /\ \E features \in ExtractedFeatures :
         LET text == processed_texts[Len(feature_data) + 1].original
             v == validate_features(features.tokens, features.entities,
                                    features.overall_sentiment)
             r == determine_severity(v)
         IN  /\ feature_data' = Append(feature_data,
                    [original_text |-> text, tokens |-> features.tokens,
                     entities |-> features.entities, validation |-> v,
                     severity_level |-> r.ret])
             /\ low_severity' = r.low_severity
             /\ high_severity' = r.high_severity
             /\ overall_sentiment' = features.overall_sentiment
    /\ calls' = calls + 1
    /\ pc' = IF Len(feature_data) + 1 = Len(processed_texts) THEN "reports" ELSE "features"
    /\ UNCHANGED << dataset, processed_texts, content_types, content_ids, author_ids,
                    incident_reports, sia, record, validation, returns, labels >>
    /\ UNCHANGED client_vars

\* The incident dict with the tier of the batch's first record in every
\* report.
incident_report_first_record(i, severity) ==
    [content_id     |-> get_content_id(i),
     incident_id    |-> << "i", i + 10000 >>,
     author_id      |-> get_author_id(i),
     content_type   |-> get_content_type(i),
     severity_level |-> determine_severity(feature_data[1].validation).ret,
     status         |-> "pending review"]

\* The incident dict built for record i (0-based) with its severity.
incident_report(i, severity) ==
    [content_id     |-> get_content_id(i),
     incident_id    |-> << "i", i + 10000 >>,
     author_id      |-> get_author_id(i),
     content_type   |-> get_content_type(i),
     severity_level |-> severity,
     status         |-> "pending review"]

\* One pass of the loop of generate_incident_reports: record i is the next
\* one without a report.  A lookup that raises IndexError ends the function
\* without a return value; after the last record the list is returned.
GenerateReport ==
    /\ pc = "reports"
    /\ Len(incident_reports) < Len(feature_data)
    /\ LET i == Len(incident_reports)
           r == determine_severity(feature_data[i + 1].validation)
           incident == incident_report(i, r.ret)
           raised == IndexError \in { incident.content_id, incident.author_id,
                                      incident.content_type }
       IN  /\ low_severity' = r.low_severity
           /\ high_severity' = r.high_severity
           /\ incident_reports' = IF raised THEN << >>
                                  ELSE Append(incident_reports, incident)
           /\ pc' = IF raised THEN "raised"
                    ELSE IF i + 1 = Len(feature_data) THEN "done"
                    ELSE "reports"
    /\ calls' = calls + 1
    /\ UNCHANGED << dataset, processed_texts, content_types, content_ids, author_ids,
                    feature_data, sia, record, validation, returns,
                    overall_sentiment, labels >>
    /\ UNCHANGED client_vars

(***************************************************************************)
(* The training scripts' loaders: each reads feature_dataset.json and      *)
(* turns every record's severity_level into a binary label.                *)
(***************************************************************************)
\* pytorch_model_training.load_tfidf_data: 0.0 if "low" else 1.0
load_tfidf_data(data) ==
    [k \in DOMAIN data |-> IF data[k].severity_level = "low" THEN 0 ELSE 1]

\* pytorch_model_training.load_tokenized_data: 0.0 if "low" else 1.0
load_tokenized_data(data) ==
    [k \in DOMAIN data |-> IF data[k].severity_level = "low" THEN 0 ELSE 1]

\* tensorflow_scikit_model_training.load_text_data: 0 if "low" else 1
tensorflow_scikit_load_text_data(data) ==
    [k \in DOMAIN data |-> IF data[k].severity_level = "low" THEN 0 ELSE 1]

\* model_training.load_text_data: 1 if "high" else 0
model_training_load_text_data(data) ==
    [k \in DOMAIN data |-> IF data[k].severity_level = "high" THEN 1 ELSE 0]

\* The training scripts read the feature dataset once process_and_save_features
\* has written it.
LoadTrainingLabels ==
    /\ pc \in { "reports", "done", "raised" }
    /\ DOMAIN labels = { }
    /\ labels' = [load_tfidf_data     |-> load_tfidf_data(feature_data),
                  load_tokenized_data |-> load_tokenized_data(feature_data),
                  tensorflow_scikit_load_text_data
                                      |-> tensorflow_scikit_load_text_data(feature_data),
                  model_training_load_text_data
                                      |-> model_training_load_text_data(feature_data)]
    /\ UNCHANGED << dataset, processed_texts, content_types, content_ids, author_ids,
                    feature_data, incident_reports, low_severity, high_severity, pc,
                    sia, record, validation, returns, calls, overall_sentiment >>
    /\ UNCHANGED client_vars

\* visualize_summary: the two bars and the two printed lines show
\* low_severity / 2 and high_severity / 2 (true division), in hundredths.
visualize_summary ==
    [low_severity  |-> (low_severity * 100) \div 2,
     high_severity |-> (high_severity * 100) \div 2]

Next == TextCleaningMain \/ ProcessRecord \/ GenerateReport \/ LoadTrainingLabels

Spec == Init /\ [][Next]_vars

(***************************************************************************)
(* Properties of generate_incident_reports, checked under Spec.            *)
(***************************************************************************)
GenerateEnded == pc \in { "done", "raised" }

\* C8 as stated: over a batch of N records generate_incident_reports returns
\* exactly N reports, in input order, the report of index i with incident id
\* "i" followed by 10000 + i: distinct, strictly increasing, from 10000.
C8_IncidentIds ==
    GenerateEnded =>
        /\ Len(incident_reports) = Len(feature_data)
        /\ \A k \in DOMAIN incident_reports :
               incident_reports[k].incident_id = << "i", 10000 + (k - 1) >>
        /\ \A j, k \in DOMAIN incident_reports :
               j < k => incident_reports[j].incident_id[2] < incident_reports[k].incident_id[2]

\* C19: every report in the list of generate_incident_reports has status
\* "pending review" and the severity_level that determine_severity gives
\* for the validation of the record at the report's index, one of "zero",
\* "low", "high"; and no step changes a report that is already in the list.
C19_ReportContents ==
    /\ [](\A k \in DOMAIN incident_reports :
            /\ incident_reports[k].status = "pending review"
            /\ incident_reports[k].severity_level
                  = determine_severity(feature_data[k].validation).ret
            /\ incident_reports[k].severity_level \in { "zero", "low", "high" })
    /\ [][\A k \in DOMAIN incident_reports :
            k \in DOMAIN incident_reports' => incident_reports'[k] = incident_reports[k]]_vars

\* Two reports returned for two records of different tiers.
C19_Witness ==
    /\ pc = "done"
    /\ Len(incident_reports) = 2
    /\ incident_reports[1].severity_level = "zero"
    /\ incident_reports[2].severity_level = "high"
    /\ incident_reports[2].status = "pending review"

\* What the claimed lookup gives: the entry, or "Unspecified" when the table
\* has none for the index.
LookupOrUnspecified(table, k) ==
    IF k \in DOMAIN table THEN table[k] ELSE "Unspecified"

\* C9 as stated: when a content id, author id or content type lookup has no
\* entry for a record, the report carries "Unspecified" for that field, and
\* every record of the batch still gets its report.
C9_LookupMissTolerance ==
    GenerateEnded =>
        /\ Len(incident_reports) = Len(feature_data)
        /\ \A k \in DOMAIN incident_reports :
               /\ incident_reports[k].content_id = LookupOrUnspecified(content_ids, k)
               /\ incident_reports[k].author_id = LookupOrUnspecified(author_ids, k)
               /\ incident_reports[k].content_type = LookupOrUnspecified(content_types, k)

(***************************************************************************)
(* Properties of analyze_entity_context, checked under SpecValidate.       *)
(***************************************************************************)
Validated == pc \in { "validated", "assigned" }

\* Some token of the record lowercases to one of the four negative words.
HasNegativeWord ==
    \E k \in DOMAIN record.tokens :
        lower(record.tokens[k][1]) \in { "stupid", "dumb", "annoying", "loser" }

\* C11: Once a record is validated, an entity text is among its
\* flagged_entities if and only if the record has an entity with that text
\* labelled PERSON and at least one token, at any position, lowercases to
\* "stupid", "dumb", "annoying" or "loser"; so one such token flags every
\* PERSON entity and an entity with another label is never flagged.
C11_EntityFlaggingRule ==
    Validated =>
        \A name \in { e[1] : e \in EntitySet } :
            (name \in Range(validation.flagged_entities))
                <=> /\ \E j \in DOMAIN record.entities :
                          record.entities[j] = << name, "PERSON" >>
                    /\ HasNegativeWord

\* A record whose only negative word is capitalised ("Loser"), with a GPE
\* entity before a PERSON entity: only the PERSON entity is flagged.
C11_Witness ==
    /\ pc = "validated"
    /\ record.tokens = << << "you", "PRON" >>, << "Loser", "NOUN" >> >>
    /\ record.entities = << << "Paris", "GPE" >>, << "Alex", "PERSON" >> >>
    /\ validation.flagged_entities = << "Alex" >>

\* Number of positions of seq that hold x.
Occurrences(seq, x) == Cardinality({ k \in DOMAIN seq : seq[k] = x })

\* C12 (as stated): flagged_entities of a validated record holds every text
\* once, so its length is the number of distinct flagged texts.
C12_FlaggedIsSet ==
    Validated =>
        Len(validation.flagged_entities) = Cardinality(Range(validation.flagged_entities))

\* C12 (amended): flagged_entities of a validated record is a list with one
\* entry per PERSON entity occurrence: when the record has a negative word,
\* a text occurs in it as many times as it occurs as a PERSON entity, and
\* determine_severity counts the occurrences, so two occurrences of one
\* text give "high".
C12_FlaggedIsList ==
    /\ Validated =>
          \A name \in { e[1] : e \in EntitySet } :
              Occurrences(validation.flagged_entities, name)
                  = IF HasNegativeWord
                    THEN Occurrences(record.entities, << name, "PERSON" >>)
                    ELSE 0
    /\ pc = "assigned" /\ Len(validation.flagged_entities) >= 2 => returns = << "high" >>

\* The same PERSON text twice beside one mild negative word: it is flagged
\* twice, and the count of two alone makes the record "high".
C12_Witness ==
    /\ pc = "assigned"
    /\ record.entities = << << "Alex", "PERSON" >>, << "Alex", "PERSON" >> >>
    /\ validation.flagged_entities = << "Alex", "Alex" >>
    /\ validation.total_negative < 150
    /\ returns = << "high" >>

(***************************************************************************)
(* Properties of the lexicon score and the adjective counts, checked under *)
(* SpecValidate.                                                           *)
(***************************************************************************)
\* |weight| of a token's lowercased text when it is a lexicon key, else 0.
TokenWeight(token) ==
    IF lower(token[1]) \in DOMAIN severity_lexicon
    THEN abs(severity_lexicon[lower(token[1])])
    ELSE 0

RECURSIVE SumWeights(_, _)
\* TokenWeight summed over the first n token occurrences.
SumWeights(tokens, n) ==
    IF n = 0 THEN 0 ELSE TokenWeight(tokens[n]) + SumWeights(tokens, n - 1)

\* C13: The lexicon score of a validated record is the sum over its token
\* occurrences of |weight| of the lowercased token when that is a lexicon
\* key and 0 otherwise; a multi-word entry never contributes: a record with
\* the tokens "kill" and "yourself", adjacent in either order, scores 1.5
\* for "kill" alone although "kill yourself" is a lexicon key.
C13_TokenWiseLexiconScore ==
    Validated =>
        /\ validation.custom_negative_score
              = SumWeights(record.tokens, Len(record.tokens))
        /\ "kill yourself" \in DOMAIN severity_lexicon
        /\ { record.tokens[k][1] : k \in DOMAIN record.tokens } = { "kill", "yourself" }
              /\ Len(record.tokens) = 2
              => validation.custom_negative_score = 150

\* "kill" directly followed by "yourself".
C13_Witness ==
    /\ pc = "validated"
    /\ record.tokens = << << "kill", "VERB" >>, << "yourself", "PRON" >> >>
    /\ validation.custom_negative_score = 150

\* The entries of the source table that no later entry overrides.
LastEntries ==
    { k \in DOMAIN severity_lexicon_items :
        \A j \in DOMAIN severity_lexicon_items :
            severity_lexicon_items[j][1] = severity_lexicon_items[k][1] => j <= k }

\* C14: The built lexicon gives every phrase of the source table one
\* weight, that of the phrase's last occurrence in the table, and scoring
\* uses it: a validated record of the single token "ugly" (given as -0.8,
\* then as -0.3) has lexicon score 0.3, and likewise "worthless", "loser"
\* and "nobody" carry the weight of their last occurrence.
C14_LastWriteWins ==
    /\ DOMAIN severity_lexicon
          = { severity_lexicon_items[k][1] : k \in DOMAIN severity_lexicon_items }
    /\ \A k \in LastEntries :
          severity_lexicon[severity_lexicon_items[k][1]] = severity_lexicon_items[k][2]
    /\ Validated /\ Len(record.tokens) = 1 =>
          \A k \in LastEntries :
              lower(record.tokens[1][1]) = severity_lexicon_items[k][1]
                  => validation.custom_negative_score = abs(severity_lexicon_items[k][2])
    /\ Validated /\ Len(record.tokens) = 1 /\ lower(record.tokens[1][1]) = "ugly"
          => validation.custom_negative_score = 30

\* The single token "UGLY", whose key the table gives twice with different
\* weights (-0.8 first, -0.3 last): the record scores 0.3.
C14_Witness ==
    /\ pc = "validated"
    /\ record.tokens = << << "UGLY", "ADJ" >> >>
    /\ \E j, k \in DOMAIN severity_lexicon_items :
          /\ j < k
          /\ severity_lexicon_items[j] = << "ugly", -80 >>
          /\ severity_lexicon_items[k] = << "ugly", -30 >>
    /\ validation.custom_negative_score = 30

\* C15: The negative adjective list and the severity lexicon hold the same
\* phrases, and negative_adjectives of a validated record is the number of
\* token occurrences tagged ADJ whose lowercased text is a key of the
\* severity lexicon; a token with another tag is never counted.
C15_NegativeAdjectiveCount ==
    /\ Range(negative_adjective_list) = DOMAIN severity_lexicon
    /\ Validated =>
          validation.negative_adjectives
              = Cardinality({ k \in DOMAIN record.tokens :
                                /\ record.tokens[k][2] = "ADJ"
                                /\ lower(record.tokens[k][1]) \in DOMAIN severity_lexicon })

\* A lexicon word tagged VERB beside a lexicon word tagged ADJ: count 1.
C15_Witness ==
    /\ pc = "validated"
    /\ record.tokens = << << "kill", "VERB" >>, << "UGLY", "ADJ" >> >>
    /\ "kill" \in DOMAIN severity_lexicon
    /\ validation.negative_adjectives = 1

\* C26: every lexicon weight has magnitude at least 0.3 and the scorer's
\* negative scores are non-negative, so a validation record produced by
\* validate_features with negative_adjectives >= 1 has total_negative >=
\* 0.3, and its tier is "low" or "high", never "zero".
C26_AdjectiveImpliesNegative ==
    /\ \A key \in DOMAIN severity_lexicon : abs(severity_lexicon[key]) >= 30
    /\ \A word \in DOMAIN sia : sia[word].neg >= 0
    /\ Validated /\ validation.negative_adjectives >= 1
          => validation.total_negative >= 30
    /\ pc = "assigned" /\ validation.negative_adjectives >= 1
          => returns[1] \in { "low", "high" }

\* One negative adjective of weight 0.3 and nothing else in the record.
C26_Witness ==
    /\ pc = "assigned"
    /\ record.tokens = << << "UGLY", "ADJ" >> >>
    /\ record.entities = << >>
    /\ validation.negative_adjectives = 1
    /\ validation.custom_negative_score = 30
    /\ validation.total_negative >= 30
    /\ returns = << "low" >>

(***************************************************************************)
(* Properties of the sentiment aggregation, checked under SpecValidate.    *)
(***************************************************************************)
RECURSIVE TokenSummed(_, _, _)
\* The scorer's key score summed over the first n token occurrences.
TokenSummed(tokens, n, key) ==
    IF n = 0 THEN 0
    ELSE sia[lower(tokens[n][1])][key] + TokenSummed(tokens, n - 1, key)

\* C16: In a validated record, sentiment_summary.positive is the larger of
\* the record-level and the token-summed positive score, .negative the
\* larger of the record-level and the token-summed negative score, and
\* .neutral the smaller of the record-level and the token-summed neutral
\* score.
C16_AsymmetricAggregation ==
    Validated =>
        LET n == Len(record.tokens)
            ss == validation.sentiment_summary
        IN  /\ ss.positive = max(overall_sentiment.pos, TokenSummed(record.tokens, n, "pos"))
            /\ ss.negative = max(overall_sentiment.neg, TokenSummed(record.tokens, n, "neg"))
            /\ ss.neutral  = min(overall_sentiment.neu, TokenSummed(record.tokens, n, "neu"))

\* Tokens summing to positive 1.0, negative 0, neutral 1.0 under a
\* record-level score of positive 0, negative 0.6, neutral 0.4: positive
\* comes from the tokens, negative and neutral from the record level.
C16_Witness ==
    /\ pc = "validated"
    /\ sia = LexicalScorer
    /\ record.tokens = << << "great", "ADJ" >>, << "you", "PRON" >> >>
    /\ overall_sentiment = [pos |-> 0, neg |-> 60, neu |-> 40]
    /\ validation.sentiment_summary = [positive |-> 100, negative |-> 60, neutral |-> 40]

\* C17: total_negative of a validated record is the token-summed negative
\* score plus the lexicon score, whatever the record-level negative score
\* and sentiment_summary.negative are; hence total_negative >= lexicon
\* score >= 0.
C17_TotalNegative ==
    Validated =>
        /\ validation.total_negative
              = TokenSummed(record.tokens, Len(record.tokens), "neg")
                    + validation.custom_negative_score
        /\ validation.total_negative >= validation.custom_negative_score
        /\ validation.custom_negative_score >= 0

\* A record-level negative score (0.6) above the token-summed one (0):
\* sentiment_summary.negative is 0.6 while total_negative is the lexicon
\* score 0.3 alone.
C17_Witness ==
    /\ pc = "validated"
    /\ sia = MildScorer
    /\ record.tokens = << << "you", "PRON" >>, << "Loser", "NOUN" >> >>
    /\ overall_sentiment.neg = 60
    /\ validation.sentiment_summary.negative = 60
    /\ validation.custom_negative_score = 30
    /\ validation.total_negative = 30

(***************************************************************************)
(* Properties of the training loaders, checked under Spec.                 *)
(***************************************************************************)
\* C20 as stated: every binary loader labels a record of the feature
\* dataset 1 exactly when its severity_level is "high" and 0 otherwise, for
\* "zero", "low" and "high" alike, so the loaders agree on every record.
C20_LabelMapping ==
    \A loader \in DOMAIN labels : \A k \in DOMAIN feature_data :
        labels[loader][k] = IF feature_data[k].severity_level = "high" THEN 1 ELSE 0

(***************************************************************************)
(* Incident_interaction.py: login, upload_json and upload_csv, called in   *)
(* any order, against the backend's incidents collection.  The backend is  *)
(* the environment: it answers a GET with status 200 or not, and a POST    *)
(* with 201 (the incident is stored) or not.                               *)
(***************************************************************************)
\* One item of an incident file; a key the item does not hold is None.
Incident(content_id, incident_id, author_id, content_type, severity_level, status) ==
    [content_id |-> content_id, incident_id |-> incident_id, author_id |-> author_id,
     content_type |-> content_type, severity_level |-> severity_level, status |-> status]

ReportHighP1 == Incident("p1", "i10000", "u1", "post", "high", "pending review")
ReportLowP1  == Incident("p1", "i10001", "u2", "post", "low", "pending review")
ReportZeroM2 == Incident("m2", "i10002", "u2", "message", "zero", "pending review")
ReportMixedCaseM2 == Incident("m2", "i10003", "u2", "message", " High ", "Resolved")
ReportBlankId == Incident(" ", "i10004", "u1", "post", "low", "pending review")
ReportOpenM2 == Incident("m2", "i10005", "u1", "message", "medium", "open")
ReportNoAuthor == Incident("c3", "i10006", None, "comment", "low", "resolved")
ReportMediumC3 == Incident("c3", "i10007", "u1", "comment", "medium", "resolved")

\* What json.load / csv.DictReader give: an unreadable file raises, a JSON
\* file holds a list or a single dict (kept here as data[1]), a CSV file
\* always gives a list.
File(readable, is_list, data) == [readable |-> readable, is_list |-> is_list, data |-> data]

IncidentCsvFiles ==
    { File(FALSE, TRUE, << >>),
      File(TRUE, TRUE, << >>),
      File(TRUE, TRUE, << ReportHighP1 >>),
      File(TRUE, TRUE, << ReportHighP1, ReportLowP1 >>),
      File(TRUE, TRUE, << ReportZeroM2, ReportHighP1 >>),
      File(TRUE, TRUE, << ReportMixedCaseM2 >>),
      File(TRUE, TRUE, << ReportBlankId, ReportMixedCaseM2 >>),
      File(TRUE, TRUE, << ReportOpenM2, ReportNoAuthor >>),
      File(TRUE, TRUE, << ReportMediumC3, ReportLowP1 >>) }

IncidentJsonFiles == IncidentCsvFiles \cup { File(TRUE, FALSE, << ReportMediumC3 >>) }

\* item.get(key, "")
item_get(value) == IF value = None THEN "" ELSE value

\* The filtered_item dict of validate_incident_data.
filtered_incident(item) ==
    [contentId     |-> strip(item_get(item.content_id)),
     incidentId    |-> item_get(item.incident_id),
     authorId      |-> strip(item_get(item.author_id)),
     contentType   |-> strip(item_get(item.content_type)),
     severityLevel |-> lower(strip(item_get(item.severity_level))),
     status        |-> lower(strip(item_get(item.status)))]

valid_severity_levels == { "low", "medium", "high" }

valid_statuses == { "pending review", "resolved" }

\* The tests without the severity-level one.
incident_is_valid_any_severity(filtered_item) ==
    /\ \A key \in DOMAIN filtered_item : filtered_item[key] /= ""
    /\ filtered_item.status \in valid_statuses

\* The three tests of validate_incident_data on one filtered item.
incident_is_valid(filtered_item) ==
    /\ \A key \in DOMAIN filtered_item : filtered_item[key] /= ""
    /\ filtered_item.severityLevel \in valid_severity_levels
    /\ filtered_item.status \in valid_statuses

RECURSIVE validate_incident_data(_)
validate_incident_data(data) ==
    IF data = << >> THEN << >>
    ELSE LET filtered_item == filtered_incident(Head(data))
             rest == validate_incident_data(Tail(data))
         IN  IF incident_is_valid(filtered_item)
             THEN << filtered_item >> \o rest
             ELSE rest

\* Incident_interaction.check_duplicates: existing is the contentIds of the
\* incidents in the GET response.
incident_check_duplicates(new_data, status_code, existing) ==
    /\ status_code = 200
    /\ \E k \in DOMAIN new_data : new_data[k].contentId \in Range(existing)

\* The data a readable file gives the upload function.
loaded(file) == IF file.is_list THEN file.data ELSE << file.data[1] >>

GetIncidents == [method |-> "GET", url |-> "/incidents"]

PostIncident(item) == [method |-> "POST", url |-> "/incidents", json |-> item]

RECURSIVE post_each(_)
\* The upload loop: one POST per item, in order.
post_each(data) ==
    IF data = << >> THEN << >>
    ELSE << PostIncident(Head(data)) >> \o post_each(Tail(data))

\* The requests upload_json sends for a file, given the status of the GET.
incident_upload_json(file, status_code) ==
    IF AUTH_TOKEN = None \/ ~ file.readable THEN << >>
    ELSE LET data == validate_incident_data(loaded(file))
         IN  IF data = << >> THEN << >>
             ELSE IF incident_check_duplicates(data, status_code, server_incidents)
             THEN << GetIncidents >>
             ELSE << GetIncidents >> \o post_each(data)

\* The requests upload_csv sends for a file.
incident_upload_csv(file) ==
    IF AUTH_TOKEN = None \/ ~ file.readable THEN << >>
    ELSE post_each(validate_incident_data(loaded(file)))

\* The positions of the POSTs in a sequence of requests.
Posts(sent) == { k \in DOMAIN sent : sent[k].method = "POST" }

RECURSIVE stored_by(_, _, _)
\* The contentIds the backend stores for the first n requests: those of
\* the POSTs it answers with 201.
stored_by(sent, created, n) ==
    IF n = 0 THEN << >>
    ELSE stored_by(sent, created, n - 1)
            \o (IF sent[n].method = "POST" /\ created[n]
                THEN << sent[n].json.contentId >> ELSE << >>)

\* The backend before any upload: at most one incident per contentId.
ServerIncidents == { << >>, << "p1" >>, << "p1", "m2" >> }

IncidentInit ==
    /\ dataset = << >>
    /\ processed_texts = << >>
    /\ content_types = << >>
    /\ content_ids = << >>
    /\ author_ids = << >>
    /\ feature_data = << >>
    /\ incident_reports = << >>
    /\ low_severity = 0
    /\ high_severity = 0
    /\ overall_sentiment = None
    /\ labels = << >>
    /\ pc = "incident_client"
    /\ sia = NeutralScorer
    /\ record = None
    /\ validation = None
    /\ returns = << >>
    /\ calls = 0
    /\ AUTH_TOKEN = None
    /\ USER_ID = None
    /\ server_incidents \in ServerIncidents
    /\ server_content = << >>
    /\ upload = << >>
    /\ requests = << >>

\* login(): status 200 stores the token and the user id, anything else
\* ends the script.
IncidentLogin ==
    /\ pc = "incident_client"
    /\ AUTH_TOKEN = None
    /\ \E status_code \in { 200, 401 }, user_id \in { "user", None } :
         IF status_code = 200
         THEN AUTH_TOKEN' = "token" /\ USER_ID' = user_id /\ pc' = pc
         ELSE UNCHANGED << AUTH_TOKEN, USER_ID >> /\ pc' = "exited"
    /\ UNCHANGED << server_incidents, server_content, upload, requests, calls >>
    /\ UNCHANGED pipeline_vars

\* upload_json(filename)
IncidentUploadJson ==
    /\ pc = "incident_client"
    /\ calls < MaxCalls
    /\ \E file \in IncidentJsonFiles, status_code \in { 200, 500 } :
         LET sent == incident_upload_json(file, status_code)
         IN  \E created \in [Posts(sent) -> BOOLEAN] :
                /\ requests' = sent
                /\ server_incidents' = server_incidents \o stored_by(sent, created, Len(sent))
                /\ upload' = [function |-> "upload_json", file |-> file,
                              token |-> AUTH_TOKEN, stored |-> server_incidents]
    /\ calls' = calls + 1
    /\ UNCHANGED << AUTH_TOKEN, USER_ID, server_content, pc >>
    /\ UNCHANGED pipeline_vars

\* upload_csv(filename)
IncidentUploadCsv ==
    /\ pc = "incident_client"
    /\ calls < MaxCalls
    /\ \E file \in IncidentCsvFiles :
         LET sent == incident_upload_csv(file)
         IN  \E created \in [Posts(sent) -> BOOLEAN] :
                /\ requests' = sent
                /\ server_incidents' = server_incidents \o stored_by(sent, created, Len(sent))
                /\ upload' = [function |-> "upload_csv", file |-> file,
                              token |-> AUTH_TOKEN, stored |-> server_incidents]
    /\ calls' = calls + 1
    /\ UNCHANGED << AUTH_TOKEN, USER_ID, server_content, pc >>
    /\ UNCHANGED pipeline_vars

IncidentNext == IncidentLogin \/ IncidentUploadJson \/ IncidentUploadCsv

SpecIncidentUpload == IncidentInit /\ [][IncidentNext]_vars

(***************************************************************************)
(* database_interaction.py: login, upload_json and upload_csv, called in   *)
(* any order, against the backend's content collection.  The backend       *)
(* answers an author lookup with the user or not, the GET of the content   *)
(* with status 200 or not, and a POST with 201 (the item is stored) or     *)
(* not.                                                                    *)
(***************************************************************************)
\* One item of a content file; a key the item does not hold is None.
Row(contentType, text, author_id, post_id) ==
    [contentType |-> contentType, content |-> text, author_id |-> author_id,
     post_id |-> post_id]

RowPostHello == Row("post", "hello", "u1", "p1")
RowPostHelloAgain == Row("post", "hello", "u2", "p2")
RowCommentNice == Row("comment", " nice ", "u1", "p1")
RowMessageNoPost == Row("message", "hi", "u2", None)
RowVideo == Row("video", "clip", "u1", "p4")

ContentCsvFiles ==
    { File(FALSE, TRUE, << >>),
      File(TRUE, TRUE, << >>),
      File(TRUE, TRUE, << RowPostHello >>),
      File(TRUE, TRUE, << RowPostHello, RowPostHelloAgain >>),
      File(TRUE, TRUE, << RowVideo, RowCommentNice >>),
      File(TRUE, TRUE, << RowMessageNoPost >>),
      File(TRUE, TRUE, << RowCommentNice, RowPostHello >>) }

ContentJsonFiles == ContentCsvFiles \cup { File(TRUE, FALSE, << RowCommentNice >>) }

VALID_CONTENT_TYPES == { "post", "message", "comment" }

\* validate_author: the id the backend resolves the reference to, or the
\* logged-in user's id when the backend does not know the author.
validate_author(author_id, found) ==
    IF found THEN << "id", author_id >> ELSE USER_ID

\* The filtered_item dict of validate_data.
filtered_row(item, found) ==
    [contentType |-> strip(item_get(item.contentType)),
     content     |-> strip(item_get(item.content)),
     author      |-> validate_author(strip(item_get(item.author_id)), found),
     post        |-> strip(item_get(item.post_id))]

\* The two tests of validate_data on one filtered item.
row_is_valid(filtered_item) ==
    /\ filtered_item.contentType /= ""
    /\ filtered_item.content /= ""
    /\ filtered_item.author /= None
    /\ filtered_item.post /= ""
    /\ filtered_item.contentType \in VALID_CONTENT_TYPES

RECURSIVE validate_data(_, _)
\* found[k] says whether the backend knows the author of item k.
validate_data(data, found) ==
    IF data = << >> THEN << >>
    ELSE LET filtered_item == filtered_row(Head(data), Head(found))
             rest == validate_data(Tail(data), Tail(found))
         IN  IF row_is_valid(filtered_item)
             THEN << filtered_item >> \o rest
             ELSE rest

\* database_interaction.check_duplicates: existing is the texts of the
\* items in the GET response.
content_check_duplicates(new_data, status_code, existing) ==
    /\ status_code = 200
    /\ \E k \in DOMAIN new_data : new_data[k].content \in Range(existing)

GetUser == [method |-> "GET", url |-> "/users"]

GetContent == [method |-> "GET", url |-> "/content"]

\* The collection an item is POSTed to, by its content type.
PostContent(item) ==
    [method |-> "POST",
     url |-> IF item.contentType = "post" THEN "/posts"
             ELSE IF item.contentType = "message" THEN "/messages"
             ELSE "/comments",
     json |-> item]

RECURSIVE post_each_content(_)
post_each_content(data) ==
    IF data = << >> THEN << >>
    ELSE << PostContent(Head(data)) >> \o post_each_content(Tail(data))

\* One author lookup per item of the file.
author_lookups(data) == [k \in DOMAIN data |-> GetUser]

\* The requests upload_json sends for a file.
content_upload_json(file, found, status_code) ==
    IF AUTH_TOKEN = None \/ ~ file.readable THEN << >>
    ELSE LET data == validate_data(loaded(file), found)
         IN  IF data = << >> THEN author_lookups(loaded(file))
             ELSE IF content_check_duplicates(data, status_code, server_content)
             THEN author_lookups(loaded(file)) \o << GetContent >>
             ELSE author_lookups(loaded(file)) \o << GetContent >>
                      \o post_each_content(data)

\* The requests upload_csv sends for a file.
content_upload_csv(file, found) ==
    IF AUTH_TOKEN = None \/ ~ file.readable THEN << >>
    ELSE author_lookups(loaded(file))
             \o post_each_content(validate_data(loaded(file), found))

RECURSIVE content_stored_by(_, _, _)
\* The texts the backend stores for the first n requests: those of the
\* POSTs it answers with 201.
content_stored_by(sent, created, n) ==
    IF n = 0 THEN << >>
    ELSE content_stored_by(sent, created, n - 1)
            \o (IF sent[n].method = "POST" /\ created[n]
                THEN << sent[n].json.content >> ELSE << >>)

\* The backend's content before any upload.
ServerContent == { << >>, << "hello" >> }

ContentInit ==
    /\ dataset = << >>
    /\ processed_texts = << >>
    /\ content_types = << >>
    /\ content_ids = << >>
    /\ author_ids = << >>
    /\ feature_data = << >>
    /\ incident_reports = << >>
    /\ low_severity = 0
    /\ high_severity = 0
    /\ overall_sentiment = None
    /\ labels = << >>
    /\ pc = "content_client"
    /\ sia = NeutralScorer
    /\ record = None
    /\ validation = None
    /\ returns = << >>
    /\ calls = 0
    /\ AUTH_TOKEN = None
    /\ USER_ID = None
    /\ server_incidents = << >>
    /\ server_content \in ServerContent
    /\ upload = << >>
    /\ requests = << >>

\* login()
ContentLogin ==
    /\ pc = "content_client"
    /\ AUTH_TOKEN = None
    /\ \E status_code \in { 200, 401 }, user_id \in { "user", None } :
         IF status_code = 200
         THEN AUTH_TOKEN' = "token" /\ USER_ID' = user_id /\ pc' = pc
         ELSE UNCHANGED << AUTH_TOKEN, USER_ID >> /\ pc' = "exited"
    /\ UNCHANGED << server_incidents, server_content, upload, requests, calls >>
    /\ UNCHANGED pipeline_vars

\* upload_json(filename)
ContentUploadJson ==
    /\ pc = "content_client"
    /\ calls < MaxCalls
    /\ \E file \in ContentJsonFiles, status_code \in { 200, 500 } :
       \E found \in [DOMAIN loaded(file) -> BOOLEAN] :
         LET sent == content_upload_json(file, found, status_code)
         IN  \E created \in [Posts(sent) -> BOOLEAN] :
                /\ requests' = sent
                /\ server_content' = server_content \o content_stored_by(sent, created, Len(sent))
                /\ upload' = [function |-> "upload_json", file |-> file,
                              token |-> AUTH_TOKEN, stored |-> server_content,
                              valid |-> validate_data(loaded(file), found)]
    /\ calls' = calls + 1
    /\ UNCHANGED << AUTH_TOKEN, USER_ID, server_incidents, pc >>
    /\ UNCHANGED pipeline_vars

\* upload_csv(filename)
ContentUploadCsv ==
    /\ pc = "content_client"
    /\ calls < MaxCalls
    /\ \E file \in ContentCsvFiles :
       \E found \in [DOMAIN loaded(file) -> BOOLEAN] :
         LET sent == content_upload_csv(file, found)
         IN  \E created \in [Posts(sent) -> BOOLEAN] :
                /\ requests' = sent
                /\ server_content' = server_content \o content_stored_by(sent, created, Len(sent))
                /\ upload' = [function |-> "upload_csv", file |-> file,
                              token |-> AUTH_TOKEN, stored |-> server_content,
                              valid |-> validate_data(loaded(file), found)]
    /\ calls' = calls + 1
    /\ UNCHANGED << AUTH_TOKEN, USER_ID, server_incidents, pc >>
    /\ UNCHANGED pipeline_vars

ContentNext == ContentLogin \/ ContentUploadJson \/ ContentUploadCsv

SpecContentUpload == ContentInit /\ [][ContentNext]_vars

(***************************************************************************)
(* Properties of the side tables of text_cleaning, checked under Spec.     *)
(***************************************************************************)
\* The dataset records that give a processed record: 'content' or 'text'.
HasText(r) == r.content /= None \/ r.text /= None

\* Index in the dataset of the record that produced processed record k.
SourceIndex(k) ==
    CHOOSE j \in DOMAIN dataset :
        /\ HasText(dataset[j])
        /\ Cardinality({ h \in 1 .. j : HasText(dataset[h]) }) = k

\* C21 as stated: after text_cleaning.main(), content_types, content_ids
\* and author_ids each have one entry per processed record, and for every
\* index i of the processed records the three getters return the metadata
\* of the dataset record that produced processed record i.
C21_SideTableAlignment ==
    pc /= "start" =>
        /\ Len(content_types) = Len(processed_texts)
        /\ Len(content_ids) = Len(processed_texts)
        /\ Len(author_ids) = Len(processed_texts)
        /\ \A k \in DOMAIN processed_texts :
              LET r == dataset[SourceIndex(k)]
              IN  /\ get_content_type(k - 1)
                        = IF r.content /= None THEN record_content_type(r)
                          ELSE "Unspecified"
                  /\ get_content_id(k - 1) = record_content_id(r)
                  /\ get_author_id(k - 1) = get_or_unspecified(r.author_id)

(***************************************************************************)
(* Properties of the batch, checked under Spec.                            *)
(***************************************************************************)
\* The tier of the decision procedure, as a function of the validation
\* record alone.
SpecTier(v) ==
    IF SpecHighPredicate(v) THEN "high"
    ELSE IF SpecLowPredicate(v) THEN "low"
    ELSE "zero"

CountTier(entries, tier) ==
    Cardinality({ k \in DOMAIN entries : entries[k].severity_level = tier })

\* The validation record handed to determine_severity by the step.
CalledWith ==
    IF pc = "features" THEN feature_data'[Len(feature_data')].validation
    ELSE feature_data[Len(incident_reports) + 1].validation

\* C29: every determine_severity call adds exactly 1 to high_severity when
\* it returns "high", exactly 1 to low_severity when it returns "low", and
\* leaves both alone when it returns "zero"; no other step changes them;
\* and once process_and_save_features and generate_incident_reports have
\* both run over the batch, each counter is twice the number of reports of
\* its tier, so that visualize_summary shows the report counts.
C29_TallyCounters ==
    /\ [][IF calls' /= calls
          THEN LET tier == determine_severity(CalledWith).ret
               IN  /\ high_severity' = high_severity + (IF tier = "high" THEN 1 ELSE 0)
                   /\ low_severity' = low_severity + (IF tier = "low" THEN 1 ELSE 0)
          ELSE /\ high_severity' = high_severity
               /\ low_severity' = low_severity]_vars
    /\ [](pc = "done" =>
            /\ low_severity = 2 * CountTier(incident_reports, "low")
            /\ high_severity = 2 * CountTier(incident_reports, "high")
            /\ visualize_summary.low_severity = 100 * CountTier(incident_reports, "low")
            /\ visualize_summary.high_severity
                  = 100 * CountTier(incident_reports, "high"))

\* A finished batch of a "zero" and a "low" record: low_severity counted
\* twice for the one "low" report, nothing counted for the "zero" one.
C29_Witness ==
    /\ pc = "done"
    /\ Len(incident_reports) = 2
    /\ CountTier(incident_reports, "zero") = 1
    /\ CountTier(incident_reports, "low") = 1
    /\ low_severity = 2
    /\ high_severity = 0
    /\ visualize_summary.low_severity = 100

(***************************************************************************)
(* Properties of Incident_interaction, checked under SpecIncidentUpload.   *)
(***************************************************************************)
\* C22 as stated: from a backend with at most one incident per contentId,
\* after any sequence of upload_json and upload_csv calls the backend still
\* holds at most one incident per contentId, and no upload POSTs an incident
\* whose contentId was already stored or was already posted in the same
\* batch.
C22_OneIncidentPerContentId ==
    /\ \A j, k \in DOMAIN server_incidents :
          j < k => server_incidents[j] /= server_incidents[k]
    /\ \A k \in DOMAIN requests :
          requests[k].method = "POST" =>
              /\ requests[k].json.contentId \notin Range(upload.stored)
              /\ \A j \in 1 .. k - 1 :
                    requests[j].method = "POST"
                        => requests[j].json.contentId /= requests[k].json.contentId

\* The last call was Incident_interaction.upload_json.
UploadJsonCalled == DOMAIN upload /= { } /\ upload.function = "upload_json"

\* The incident ids of the POSTs of the last call, in order.
PostedIds == [k \in { j \in DOMAIN requests : requests[j].method = "POST" }
                |-> requests[k].json.incidentId]

\* The items of the model's files that pass the filter: six non-empty
\* fields, a severity among low, medium, high and a status among pending
\* review, resolved, once stripped and lowercased.
PassingIds == { "i10000", "i10001", "i10003", "i10007" }

\* C30: upload_json sends no request while AUTH_TOKEN is unset; every item
\* it POSTs has six non-empty fields, severityLevel in {low, medium, high}
\* and status in {pending review, resolved}; an item with severity_level
\* "zero" is never POSTed; and when the batch is uploaded an invalid item
\* does not stop the valid ones: with no contentId of the file stored on
\* the backend, exactly the file's valid items are POSTed.
C30_IncidentUploadFilter ==
    /\ UploadJsonCalled =>
          /\ upload.token = None => requests = << >>
          /\ \A k \in DOMAIN requests :
                requests[k].method = "POST" =>
                    LET item == requests[k].json
                    IN  /\ \A key \in { "contentId", "incidentId", "authorId",
                                         "contentType", "severityLevel", "status" } :
                              item[key] /= ""
                        /\ item.severityLevel \in { "low", "medium", "high" }
                        /\ item.status \in { "pending review", "resolved" }
                        /\ item.incidentId /= ReportZeroM2.incident_id
          /\ ( /\ upload.token /= None
               /\ upload.file.readable
               /\ \A k \in DOMAIN upload.file.data :
                     strip(item_get(upload.file.data[k].content_id))
                         \notin Range(upload.stored) )
              => { PostedIds[k] : k \in DOMAIN PostedIds }
                    = { upload.file.data[k].incident_id : k \in DOMAIN upload.file.data }
                          \cap PassingIds

\* A file with a "zero" report before a valid one, nothing of it stored:
\* only the valid report is POSTed, after the duplicate check's GET.
C30_Witness ==
    /\ UploadJsonCalled
    /\ upload.token /= None
    /\ upload.file.data = << ReportZeroM2, ReportHighP1 >>
    /\ upload.stored = << >>
    /\ Len(requests) = 2
    /\ requests[1].method = "GET"
    /\ requests[2].method = "POST"
    /\ requests[2].json.incidentId = "i10000"
    /\ requests[2].json.severityLevel = "high"

(***************************************************************************)
(* Properties of database_interaction, checked under SpecContentUpload.    *)
(***************************************************************************)
\* C23 as stated: database_interaction.upload_csv checks for duplicates
\* before uploading: when the text of a validated row is already in the
\* backend's content, upload_csv POSTs no row.
C23_CsvChecksDuplicates ==
    ( /\ DOMAIN upload /= { }
      /\ upload.function = "upload_csv"
      /\ upload.token /= None
      /\ upload.file.readable
      /\ \E k \in DOMAIN upload.valid : upload.valid[k].content \in Range(upload.stored) )
        => \A k \in DOMAIN requests : requests[k].method /= "POST"

====
